---- MODULE Spec2Model ----
(***************************************************************************)
(* A model of the hacspec ("Rustspec") type checker,                       *)
(* src/hacspec-lang/src/typechecker.rs.                                    *)
(*                                                                         *)
(* The checker is a pure recursive traversal whose only side effect is the *)
(* emission of diagnostics (sess.span_err).  Every function of the source  *)
(* is an operator of the same name that returns the function's Result      *)
(* together with the diagnostics it emitted, in emission order.            *)
(*                                                                         *)
(* Source locations.  A diagnostic is a record [msg, at]: msg names the    *)
(* message of the span_err call and at is the span it is given.  The span  *)
(* of a syntax node is modelled by the node's position in the tree: a      *)
(* sequence of child indices (see the Span* operators).                    *)
(* The spans carried inside a Typ are used by the source only to place     *)
(* diagnostics and are not modelled; equality of BaseTyp values (the       *)
(* derived PartialEq of rustspec.rs, which is not part of src/) is the     *)
(* structural equality of the type grammar.                                *)
(*                                                                         *)
(* im::HashMap is modelled as a TLA+ function with a finite domain, with   *)
(* the operations the source uses: get, update, without and union; union   *)
(* keeps the receiver's value for a key present in both maps, as the       *)
(* library documents.                                                      *)
(***************************************************************************)
EXTENDS Integers, Sequences, FiniteSets, TLC

(***************************************************************************)
(* rustspec types, as the type checker uses them                           *)
(***************************************************************************)

Consumed == "Consumed"
Borrowed == "Borrowed"
Borrowing == {Consumed, Borrowed}

\* The twelve integer base types, by the name of the BaseTyp variant.
IntKinds ==
  {"UInt128", "Int128", "UInt64", "Int64", "UInt32", "Int32",
   "UInt16", "Int16", "UInt8", "Int8", "Usize", "Isize"}

\* BaseTyp values: k is the variant; sub holds the component types (the cell
\* type of a Seq, the components of a Tuple, the optional argument of a Named
\* path); loc is the location of a Named path (a sequence of identifiers).
Atom(k) == [k |-> k, sub |-> <<>>, loc |-> <<>>]
Unit == Atom("Unit")
Bool == Atom("Bool")
UInt8 == Atom("UInt8")
Int32 == Atom("Int32")
Usize == Atom("Usize")
TSeq(t) == [k |-> "Seq", sub |-> <<t>>, loc |-> <<>>]
TTuple(ts) == [k |-> "Tuple", sub |-> ts, loc |-> <<>>]
TNamed(loc, arg) == [k |-> "Named", sub |-> arg, loc |-> loc]

\* Typ: a borrowing mode and a base type.
Typ(b, t) == [b |-> b, t |-> t]

Min(a, b) == IF a <= b THEN a ELSE b

(***************************************************************************)
(* im::HashMap                                                             *)
(***************************************************************************)

EmptyMap == [k \in {} |-> 0]

MapUnit(k, v) == [x \in {k} |-> v]

MapUpdate(m, k, v) == [x \in DOMAIN m \cup {k} |-> IF x = k THEN v ELSE m[x]]

\* A variant of without that removes nothing.
MapWithout_nothing(m, k) == m

MapWithout(m, k) == [x \in DOMAIN m \ {k} |-> m[x]]

\* self.union(other): the values of self are kept for the keys of both maps.
MapUnion(self, other) ==
  [x \in DOMAIN self \cup DOMAIN other |->
     IF x \in DOMAIN self THEN self[x] ELSE other[x]]

(***************************************************************************)
(* is_copy and equal_types                                                 *)
(***************************************************************************)

\* A variant of is_copy that takes every tuple for a copy type, whatever its
\* components.
is_copy_any_tuple(t) == t.k \notin {"Seq", "Named"}

\* A variant of is_copy that takes no tuple for a copy type.
is_copy_no_tuple(t) == t.k \notin {"Seq", "Named", "Tuple"}

\* A variant of is_copy that looks at the components of a tuple but no deeper.
is_copy_shallow(t) ==
  /\ t.k \notin {"Seq", "Named"}
  /\ t.k = "Tuple" => \A i \in DOMAIN t.sub : t.sub[i].k \notin {"Seq", "Named"}

RECURSIVE is_copy(_)
is_copy(t) ==
  CASE t.k = "Unit" -> TRUE
    [] t.k = "Bool" -> TRUE
    [] t.k \in IntKinds -> TRUE
    [] t.k = "Seq" -> FALSE
    [] t.k = "Named" -> FALSE
    [] t.k = "Tuple" -> \A i \in DOMAIN t.sub : is_copy(t.sub[i])

\* A variant of equal_types that compares the base types alone.
equal_types_any_mode(t1, t2) == t1.t = t2.t

RECURSIVE equal_types(_, _)
equal_types(t1, t2) ==
  IF t1.b = t2.b
  THEN
    CASE t1.t.k = "Unit" /\ t2.t.k = "Unit" -> TRUE
      [] t1.t.k = "Bool" /\ t2.t.k = "Bool" -> TRUE
      [] t1.t.k \in IntKinds /\ t2.t.k = t1.t.k -> TRUE
      [] t1.t.k = "Seq" /\ t2.t.k = "Seq" ->
           equal_types(Typ(Consumed, t1.t.sub[1]), Typ(Consumed, t2.t.sub[1]))
      [] t1.t.k = "Named" /\ t2.t.k = "Named" ->
           /\ Len(t1.t.loc) = Len(t2.t.loc)
           /\ \A i \in 1..Min(Len(t1.t.loc), Len(t2.t.loc)) :
                t1.t.loc[i] = t2.t.loc[i]
           /\ CASE t1.t.sub = <<>> /\ t2.t.sub = <<>> -> TRUE
                [] t1.t.sub # <<>> /\ t2.t.sub # <<>> ->
                     equal_types(Typ(Consumed, t1.t.sub[1]),
                                 Typ(Consumed, t2.t.sub[1]))
                [] OTHER -> FALSE
      [] t1.t.k = "Tuple" /\ t2.t.k = "Tuple" ->
           /\ Len(t1.t.sub) = Len(t2.t.sub)
           /\ \A i \in 1..Min(Len(t1.t.sub), Len(t2.t.sub)) :
                equal_types(Typ(Consumed, t1.t.sub[i]),
                            Typ(Consumed, t2.t.sub[i]))
      [] OTHER -> FALSE
  ELSE FALSE

(***************************************************************************)
(* Results and diagnostics                                                 *)
(***************************************************************************)

\* FnKey
Static(id) == [key |-> "Static", id |-> id]
Method(t, id) == [key |-> "Method", recv |-> t, id |-> id]

\* One call of sess.span_err(at, msg).
Diag(msg, at) == [msg |-> msg, at |-> at]

\* A variant of check_vec that drops the failed elements instead of failing
\* (what a filter_map over the results would do).
check_vec_dropping(v) ==
  LET oks == SelectSeq(v, LAMBDA r : r.ok)
  IN [ok |-> TRUE, val |-> [i \in DOMAIN oks |-> oks[i].val]]

\* check_vec: Ok of the values when every element is Ok, Err otherwise.
check_vec(v) ==
  IF \A i \in DOMAIN v : v[i].ok
  THEN [ok |-> TRUE, val |-> [i \in DOMAIN v |-> v[i].val]]
  ELSE [ok |-> FALSE]

(***************************************************************************)
(* Syntax trees                                                            *)
(***************************************************************************)

\* Path: a location (a sequence of identifiers) and an optional type argument
\* (arg is <<>> for None and <<t>> for Some(t)).
Path(location, arg) == [location |-> location, arg |-> arg]

\* Expression variants.
ETuple(args) == [e |-> "Tuple", args |-> args]
ENamed(path) == [e |-> "Named", path |-> path]
EBinary(e1, e2) == [e |-> "Binary", e1 |-> e1, e2 |-> e2]
EUnary(e1) == [e |-> "Unary", e1 |-> e1]
ELit(lit) == [e |-> "Lit", lit |-> lit]
EArrayIndex(e1, e2) == [e |-> "ArrayIndex", e1 |-> e1, e2 |-> e2]
EFuncCall(f, args) == [e |-> "FuncCall", f |-> f, args |-> args]
EMethodCall(sel, f, args) == [e |-> "MethodCall", sel |-> sel, f |-> f, args |-> args]

\* An identifier reference: a path of one segment without argument.
EVar(x) == ENamed(Path(<<x>>, <<>>))
\* A call of the free function named by one identifier.
ECall(f, args) == EFuncCall(Path(<<f>>, <<>>), args)

\* Pattern variants.
PTuple(args) == [p |-> "Tuple", args |-> args]
PWildCard == [p |-> "WildCard"]
PIdentPat(x) == [p |-> "IdentPat", x |-> x]

\* Statement::LetBinding(pat, typ, expr); typ is <<>> for None, <<t>> for Some(t).
LetBinding(pat, typ, expr) == [s |-> "LetBinding", pat |-> pat, typ |-> typ, expr |-> expr]

\* FuncSig: args is a sequence of [x, t] (parameter name and Typ); ret is the
\* return BaseTyp (line 389 pairs it with a Consumed borrowing).
FuncSig(args, ret) == [args |-> args, ret |-> ret]
Param(x, t) == [x |-> x, t |-> t]

\* Item variants.
FnDecl(f, sig, b) == [i |-> "FnDecl", f |-> f, sig |-> sig, b |-> b]
Use == [i |-> "Use"]

\* The span of child i of the node whose span is at.  In a call, child 0 is
\* the callee name (f_span) and child i the i-th argument; in a method call
\* the receiver is child Len(args) + 1, its place in the combined list.
SpanChild(at, i) == Append(at, i)

(***************************************************************************)
(* typecheck_expression                                                    *)
(***************************************************************************)

\* TypecheckingResult<(Typ, VarContext)> and the diagnostics emitted.
OkE(typ, ctx, errs) == [ok |-> TRUE, typ |-> typ, ctx |-> ctx, errs |-> errs]
ErrE(errs) == [ok |-> FALSE, errs |-> errs]

RECURSIVE typecheck_expression(_, _, _, _)
RECURSIVE tuple_args(_, _, _, _, _, _, _)
RECURSIVE check_args(_, _, _, _, _, _, _)

\* A variant of tuple_args that checks every element against the context the
\* tuple was entered with, instead of the context left by the element before.
RECURSIVE tuple_args_unthreaded(_, _, _, _, _, _, _)
tuple_args_unthreaded(args, i, at, fn_context, var_context, v, errs) ==
  IF i > Len(args)
  THEN [v |-> v, ctx |-> var_context, errs |-> errs]
  ELSE
    LET r == typecheck_expression(args[i], SpanChild(at, i), fn_context, var_context) IN
    IF ~r.ok
    THEN tuple_args_unthreaded(args, i + 1, at, fn_context, var_context,
                               Append(v, [ok |-> FALSE]), errs \o r.errs)
    ELSE IF r.typ.b = Borrowed
    THEN tuple_args_unthreaded(args, i + 1, at, fn_context, var_context,
                               Append(v, [ok |-> FALSE]),
                               errs \o r.errs \o <<Diag("borrowed in tuple", SpanChild(at, i))>>)
    ELSE tuple_args_unthreaded(args, i + 1, at, fn_context, var_context,
                               Append(v, [ok |-> TRUE, val |-> r.typ.t]), errs \o r.errs)

\* A variant of check_args that compares the base types before the borrowing
\* modes.
RECURSIVE check_args_type_first(_, _, _, _, _, _, _)
check_args_type_first(sig_args, args, spans, i, fn_context, var_context, errs) ==
  IF i > Min(Len(sig_args), Len(args))
  THEN [ok |-> TRUE, ctx |-> var_context, errs |-> errs]
  ELSE
    LET r == typecheck_expression(args[i], spans[i], fn_context, var_context)
        sig_t == sig_args[i].t
    IN
    IF ~r.ok THEN [ok |-> FALSE, errs |-> errs \o r.errs]
    ELSE IF r.typ.t # sig_t.t
    THEN [ok |-> FALSE, errs |-> errs \o r.errs \o <<Diag("expected type", spans[i])>>]
    ELSE IF r.typ.b = Consumed /\ sig_t.b = Borrowed
    THEN [ok |-> FALSE, errs |-> errs \o r.errs \o <<Diag("expected a borrow", spans[i])>>]
    ELSE IF r.typ.b = Borrowed /\ sig_t.b = Consumed
    THEN [ok |-> FALSE, errs |-> errs \o r.errs \o <<Diag("superfluous borrow", spans[i])>>]
    ELSE check_args_type_first(sig_args, args, spans, i + 1, fn_context, r.ctx,
                               errs \o r.errs)

\* A variant of check_args that goes on over the arguments beyond the declared
\* parameters, checking each without a parameter to compare it with.
RECURSIVE check_args_every_argument(_, _, _, _, _, _, _)
check_args_every_argument(sig_args, args, spans, i, fn_context, var_context, errs) ==
  IF i > Len(args)
  THEN [ok |-> TRUE, ctx |-> var_context, errs |-> errs]
  ELSE
    LET r == typecheck_expression(args[i], spans[i], fn_context, var_context) IN
    IF ~r.ok THEN [ok |-> FALSE, errs |-> errs \o r.errs]
    ELSE IF i > Len(sig_args)
    THEN check_args_every_argument(sig_args, args, spans, i + 1, fn_context, r.ctx,
                                   errs \o r.errs)
    ELSE IF r.typ.b = Consumed /\ sig_args[i].t.b = Borrowed
    THEN [ok |-> FALSE, errs |-> errs \o r.errs \o <<Diag("expected a borrow", spans[i])>>]
    ELSE IF r.typ.b = Borrowed /\ sig_args[i].t.b = Consumed
    THEN [ok |-> FALSE, errs |-> errs \o r.errs \o <<Diag("superfluous borrow", spans[i])>>]
    ELSE IF r.typ.t # sig_args[i].t.t
    THEN [ok |-> FALSE, errs |-> errs \o r.errs \o <<Diag("expected type", spans[i])>>]
    ELSE check_args_every_argument(sig_args, args, spans, i + 1, fn_context, r.ctx,
                                   errs \o r.errs)

\* A variant of tuple_args that lets a Borrowed element into the tuple.
RECURSIVE tuple_args_any_mode(_, _, _, _, _, _, _)
tuple_args_any_mode(args, i, at, fn_context, var_context, v, errs) ==
  IF i > Len(args)
  THEN [v |-> v, ctx |-> var_context, errs |-> errs]
  ELSE
    LET r == typecheck_expression(args[i], SpanChild(at, i), fn_context, var_context) IN
    IF ~r.ok
    THEN tuple_args_any_mode(args, i + 1, at, fn_context, var_context,
                             Append(v, [ok |-> FALSE]), errs \o r.errs)
    ELSE tuple_args_any_mode(args, i + 1, at, fn_context, r.ctx,
                             Append(v, [ok |-> TRUE, val |-> r.typ.t]), errs \o r.errs)

\* A variant of tuple_args that stops at the first element that fails or is
\* Borrowed, without going on to the elements after it.
RECURSIVE tuple_args_fail_fast(_, _, _, _, _, _, _)
tuple_args_fail_fast(args, i, at, fn_context, var_context, v, errs) ==
  IF i > Len(args)
  THEN [v |-> v, ctx |-> var_context, errs |-> errs]
  ELSE
    LET r == typecheck_expression(args[i], SpanChild(at, i), fn_context, var_context) IN
    IF ~r.ok
    THEN [v |-> Append(v, [ok |-> FALSE]), ctx |-> var_context, errs |-> errs \o r.errs]
    ELSE IF r.typ.b = Borrowed
    THEN [v |-> Append(v, [ok |-> FALSE]), ctx |-> r.ctx,
          errs |-> errs \o r.errs \o <<Diag("borrowed in tuple", SpanChild(at, i))>>]
    ELSE tuple_args_fail_fast(args, i + 1, at, fn_context, r.ctx,
                              Append(v, [ok |-> TRUE, val |-> r.typ.t]), errs \o r.errs)

\* The closure mapped over the elements of a tuple literal (lines 116-130),
\* from element i on: v collects the element results, var_context is the
\* variable the closure captures, errs the diagnostics emitted so far.
tuple_args(args, i, at, fn_context, var_context, v, errs) ==
  IF i > Len(args)
  THEN [v |-> v, ctx |-> var_context, errs |-> errs]
  ELSE
    LET r == typecheck_expression(args[i], SpanChild(at, i), fn_context, var_context) IN
    IF ~r.ok
    THEN tuple_args(args, i + 1, at, fn_context, var_context,
                    Append(v, [ok |-> FALSE]), errs \o r.errs)
    ELSE IF r.typ.b = Borrowed
    THEN tuple_args(args, i + 1, at, fn_context, r.ctx,
                    Append(v, [ok |-> FALSE]),
                    errs \o r.errs \o <<Diag("borrowed in tuple", SpanChild(at, i))>>)
    ELSE tuple_args(args, i + 1, at, fn_context, r.ctx,
                    Append(v, [ok |-> TRUE, val |-> r.typ.t]), errs \o r.errs)

\* The loop over the zipped parameters and arguments of a call (lines
\* 358-387, and again 431-457 for a method call), from pair i on; spans[i]
\* is the span of argument i.
check_args(sig_args, args, spans, i, fn_context, var_context, errs) ==
  IF i > Min(Len(sig_args), Len(args))
  THEN [ok |-> TRUE, ctx |-> var_context, errs |-> errs]
  ELSE
    LET r == typecheck_expression(args[i], spans[i], fn_context, var_context)
        sig_t == sig_args[i].t
    IN
    IF ~r.ok THEN [ok |-> FALSE, errs |-> errs \o r.errs]
    ELSE IF r.typ.b = Consumed /\ sig_t.b = Borrowed
    THEN [ok |-> FALSE, errs |-> errs \o r.errs \o <<Diag("expected a borrow", spans[i])>>]
    ELSE IF r.typ.b = Borrowed /\ sig_t.b = Consumed
    THEN [ok |-> FALSE, errs |-> errs \o r.errs \o <<Diag("superfluous borrow", spans[i])>>]
    ELSE IF r.typ.t # sig_t.t
    THEN [ok |-> FALSE, errs |-> errs \o r.errs \o <<Diag("expected type", spans[i])>>]
    ELSE check_args(sig_args, args, spans, i + 1, fn_context, r.ctx, errs \o r.errs)

\* A variant of array_index that accepts a Borrowed index.
array_index_any_mode(r1, r2, at) ==
  IF ~r2.ok THEN ErrE(r1.errs \o r2.errs)
  ELSE IF r1.typ.t.k = "Seq"
  THEN IF r2.typ.t.k \in IntKinds
       THEN OkE(Typ(Consumed, r1.typ.t.sub[1]), r2.ctx, r1.errs \o r2.errs)
       ELSE ErrE(r1.errs \o r2.errs \o
                 <<Diag("expected an integer index", SpanChild(at, 2))>>)
  ELSE ErrE(r1.errs \o r2.errs \o <<Diag("not a sequence", SpanChild(at, 1))>>)

\* Lines 282-333: the index expression once the check of e1 has returned r1
\* (Ok) and the check of e2, against the context r1 left, has returned r2.
array_index(r1, r2, at) ==
  IF ~r2.ok THEN ErrE(r1.errs \o r2.errs)
  ELSE IF r1.typ.t.k = "Seq"
  THEN IF r2.typ.b = Borrowed
       THEN ErrE(r1.errs \o r2.errs \o <<Diag("borrowed index", SpanChild(at, 2))>>)
       ELSE IF r2.typ.t.k \in IntKinds
       THEN OkE(Typ(Consumed, r1.typ.t.sub[1]), r2.ctx, r1.errs \o r2.errs)
       ELSE ErrE(r1.errs \o r2.errs \o
                 <<Diag("expected an integer index", SpanChild(at, 2))>>)
  ELSE ErrE(r1.errs \o r2.errs \o <<Diag("not a sequence", SpanChild(at, 1))>>)

typecheck_expression(e, at, fn_context, var_context) ==
  CASE e.e = "Tuple" ->
         LET m == tuple_args(e.args, 1, at, fn_context, var_context, <<>>, <<>>)
             typ_args == check_vec(m.v)
         IN IF typ_args.ok
            THEN OkE(Typ(Consumed, TTuple(typ_args.val)), m.ctx, m.errs)
            ELSE ErrE(m.errs)
    [] e.e = "Named" ->
         IF e.path.arg = <<>> /\ Len(e.path.location) = 1
         THEN LET id == e.path.location[1] IN
              IF id \notin DOMAIN var_context
              THEN ErrE(<<Diag("unknown variable", at)>>)
              ELSE LET t == var_context[id] IN
                   IF t.b = Consumed
                   THEN IF is_copy(t.t)
                        THEN OkE(t, var_context, <<>>)
                        ELSE OkE(t, MapWithout(var_context, id), <<>>)
                   ELSE OkE(t, var_context, <<>>)
         ELSE ErrE(<<Diag("unknown variable", at)>>)
    [] e.e = "Binary" ->
         LET r1 == typecheck_expression(e.e1, SpanChild(at, 1), fn_context, var_context) IN
         IF ~r1.ok THEN ErrE(r1.errs)
         ELSE
           LET r2 == typecheck_expression(e.e2, SpanChild(at, 2), fn_context, r1.ctx) IN
           IF ~r2.ok THEN ErrE(r1.errs \o r2.errs)
           ELSE IF ~equal_types(r1.typ, r2.typ)
           THEN ErrE(r1.errs \o r2.errs \o <<Diag("wrong types of binary operators", at)>>)
           ELSE OkE(r1.typ, r2.ctx, r1.errs \o r2.errs)
    [] e.e = "Unary" ->
         typecheck_expression(e.e1, SpanChild(at, 1), fn_context, var_context)
    [] e.e = "Lit" -> OkE(Typ(Consumed, Atom(e.lit)), var_context, <<>>)
    [] e.e = "ArrayIndex" ->
         LET r1 == typecheck_expression(e.e1, SpanChild(at, 1), fn_context, var_context) IN
         IF ~r1.ok THEN ErrE(r1.errs)
         ELSE array_index(r1,
                          typecheck_expression(e.e2, SpanChild(at, 2), fn_context, r1.ctx),
                          at)
    [] e.e = "FuncCall" ->
         IF e.f.arg = <<>> /\ Len(e.f.location) = 1
         THEN
           LET id == e.f.location[1]
               f_span == SpanChild(at, 0)
           IN
           IF Static(id) \notin DOMAIN fn_context
           THEN ErrE(<<Diag("unknown function", f_span)>>)
           ELSE
             LET f_sig == fn_context[Static(id)]
                 arity == IF Len(f_sig.args) # Len(e.args)
                          THEN <<Diag("function arity", at)>> ELSE <<>>
                 spans == [i \in DOMAIN e.args |-> SpanChild(at, i)]
                 l == check_args(f_sig.args, e.args, spans, 1, fn_context, var_context, arity)
             IN IF l.ok
                THEN OkE(Typ(Consumed, f_sig.ret), l.ctx, l.errs)
                ELSE ErrE(l.errs)
         ELSE ErrE(<<Diag("foreign function", SpanChild(at, 0))>>)
    [] e.e = "MethodCall" ->
         LET sel_span == SpanChild(at, Len(e.args) + 1)
             f_span == SpanChild(at, 0)
             s == typecheck_expression(e.sel, sel_span, fn_context, var_context)
         IN
         IF ~s.ok THEN ErrE(s.errs)
         ELSE IF Method(s.typ.t, e.f) \notin DOMAIN fn_context
         THEN ErrE(s.errs \o <<Diag("unknown method", f_span)>>)
         ELSE
           LET f_sig == fn_context[Method(s.typ.t, e.f)]
               args == Append(e.args, e.sel)
               arity == IF Len(f_sig.args) # Len(args)
                        THEN <<Diag("method arity", at)>> ELSE <<>>
               spans == [i \in DOMAIN args |-> SpanChild(at, i)]
               l == check_args(f_sig.args, args, spans, 1, fn_context, s.ctx,
                               s.errs \o arity)
           IN IF l.ok
              THEN OkE(Typ(Consumed, f_sig.ret), l.ctx, l.errs)
              ELSE ErrE(l.errs)

(***************************************************************************)
(* typecheck_pattern                                                       *)
(***************************************************************************)

RECURSIVE typecheck_pattern(_, _, _)
RECURSIVE pattern_fold(_, _, _, _, _, _)

\* The fold over the zipped sub-patterns and component types (lines 480-490),
\* from pair i on; acc is the accumulator (a TypecheckingResult<VarContext>).
pattern_fold(pat_args, typ_args, i, pat_span, acc, errs) ==
  IF i > Min(Len(pat_args), Len(typ_args))
  THEN [acc |-> acc, errs |-> errs]
  ELSE
    LET sub == typecheck_pattern(pat_args[i], SpanChild(pat_span, i),
                                 Typ(Consumed, typ_args[i]))
    IN
    IF ~sub.ok
    THEN pattern_fold(pat_args, typ_args, i + 1, pat_span, [ok |-> FALSE],
                      errs \o sub.errs)
    ELSE IF ~acc.ok
    THEN pattern_fold(pat_args, typ_args, i + 1, pat_span, [ok |-> FALSE],
                      errs \o sub.errs)
    ELSE pattern_fold(pat_args, typ_args, i + 1, pat_span,
                      [ok |-> TRUE, ctx |-> MapUnion(acc.ctx, sub.ctx)],
                      errs \o sub.errs)

\* A variant of typecheck_pattern for which a tuple pattern whose arity differs
\* from the arity of the type fails, after the diagnostic.
typecheck_pattern_arity_fatal(pat, pat_span, typ) ==
  CASE pat.p = "Tuple" /\ typ.t.k = "Tuple" ->
         IF Len(pat.args) # Len(typ.t.sub)
         THEN [ok |-> FALSE, errs |-> <<Diag("pattern arity", pat_span)>>]
         ELSE LET f == pattern_fold(pat.args, typ.t.sub, 1, pat_span,
                                    [ok |-> TRUE, ctx |-> EmptyMap], <<>>)
              IN IF f.acc.ok
                 THEN [ok |-> TRUE, ctx |-> f.acc.ctx, errs |-> f.errs]
                 ELSE [ok |-> FALSE, errs |-> f.errs]
    [] pat.p = "Tuple" /\ typ.t.k # "Tuple" ->
         [ok |-> FALSE, errs |-> <<Diag("pattern expected a tuple", pat_span)>>]
    [] pat.p = "WildCard" -> [ok |-> TRUE, ctx |-> EmptyMap, errs |-> <<>>]
    [] pat.p = "IdentPat" -> [ok |-> TRUE, ctx |-> MapUnit(pat.x, typ), errs |-> <<>>]

\* A variant of typecheck_pattern that refuses a tuple pattern for a type that
\* is no tuple without a diagnostic.
typecheck_pattern_silent(pat, pat_span, typ) ==
  CASE pat.p = "Tuple" /\ typ.t.k = "Tuple" ->
         LET arity == IF Len(pat.args) # Len(typ.t.sub)
                      THEN <<Diag("pattern arity", pat_span)>> ELSE <<>>
             f == pattern_fold(pat.args, typ.t.sub, 1, pat_span,
                               [ok |-> TRUE, ctx |-> EmptyMap], arity)
         IN IF f.acc.ok
            THEN [ok |-> TRUE, ctx |-> f.acc.ctx, errs |-> f.errs]
            ELSE [ok |-> FALSE, errs |-> f.errs]
    [] pat.p = "Tuple" /\ typ.t.k # "Tuple" -> [ok |-> FALSE, errs |-> <<>>]
    [] pat.p = "WildCard" -> [ok |-> TRUE, ctx |-> EmptyMap, errs |-> <<>>]
    [] pat.p = "IdentPat" -> [ok |-> TRUE, ctx |-> MapUnit(pat.x, typ), errs |-> <<>>]

typecheck_pattern(pat, pat_span, typ) ==
  CASE pat.p = "Tuple" /\ typ.t.k = "Tuple" ->
         LET arity == IF Len(pat.args) # Len(typ.t.sub)
                      THEN <<Diag("pattern arity", pat_span)>> ELSE <<>>
             f == pattern_fold(pat.args, typ.t.sub, 1, pat_span,
                               [ok |-> TRUE, ctx |-> EmptyMap], arity)
         IN IF f.acc.ok
            THEN [ok |-> TRUE, ctx |-> f.acc.ctx, errs |-> f.errs]
            ELSE [ok |-> FALSE, errs |-> f.errs]
    [] pat.p = "Tuple" /\ typ.t.k # "Tuple" ->
         [ok |-> FALSE, errs |-> <<Diag("pattern expected a tuple", pat_span)>>]
    [] pat.p = "WildCard" -> [ok |-> TRUE, ctx |-> EmptyMap, errs |-> <<>>]
    [] pat.p = "IdentPat" -> [ok |-> TRUE, ctx |-> MapUnit(pat.x, typ), errs |-> <<>>]

(***************************************************************************)
(* typecheck_statement                                                     *)
(***************************************************************************)

\* In a let statement whose span is s_span, the pattern is child 0 and the
\* right-hand expression child 1.

\* A variant of let_result that returns the bindings of the pattern alone,
\* without the context left by the right-hand expression.
let_result_pattern_only(e, pat) ==
  IF ~pat.ok THEN [ok |-> FALSE, errs |-> e.errs \o pat.errs]
  ELSE [ok |-> TRUE,
        typ |-> Typ(Consumed, Unit),
        ctx |-> pat.ctx,
        mutated |-> {},
        errs |-> e.errs \o pat.errs]

\* A variant of let_result that gives the let statement the type of its
\* right-hand expression.
let_result_expression_typ(e, pat) ==
  IF ~pat.ok THEN [ok |-> FALSE, errs |-> e.errs \o pat.errs]
  ELSE [ok |-> TRUE,
        typ |-> e.typ,
        ctx |-> MapUnion(e.ctx, pat.ctx),
        mutated |-> {},
        errs |-> e.errs \o pat.errs]

\* Lines 540-546: the statement's result, given the results e of the check of
\* the right-hand expression and pat of the binding of the pattern.
let_result(e, pat) ==
  IF ~pat.ok THEN [ok |-> FALSE, errs |-> e.errs \o pat.errs]
  ELSE [ok |-> TRUE,
        typ |-> Typ(Consumed, Unit),
        ctx |-> MapUnion(e.ctx, pat.ctx),
        mutated |-> {},
        errs |-> e.errs \o pat.errs]

\* Lines 521-546: the statement after the check of its right-hand expression
\* has returned e.
let_binding(s, s_span, e) ==
  IF ~e.ok THEN [ok |-> FALSE, errs |-> e.errs]
  ELSE IF s.typ # <<>> /\ ~equal_types(s.typ[1], e.typ)
  THEN [ok |-> FALSE,
        errs |-> e.errs \o <<Diag("wrong type declared", SpanChild(s_span, 0))>>]
  ELSE let_result(e, typecheck_pattern(s.pat, SpanChild(s_span, 0), e.typ))

typecheck_statement(s, s_span, fn_context, var_context) ==
  let_binding(s, s_span,
              typecheck_expression(s.expr, SpanChild(s_span, 1), fn_context, var_context))

(***************************************************************************)
(* typecheck_block                                                         *)
(***************************************************************************)

\* Block: the statements and the two annotations, each None (<<>>) before the
\* check and Some (<<v>>) when the check sets it.
Block(stmts) == [stmts |-> stmts, mutated_vars |-> <<>>, return_typ |-> <<>>]

\* The local variables of typecheck_block at the head of its loop.
BlockLocals(var_context, mutated_vars, return_typ) ==
  [var_context |-> var_context, mutated_vars |-> mutated_vars, return_typ |-> return_typ]

\* Lines 564-577: the rest of an iteration of the loop, for the i-th of len
\* statements (i counts from 1), once typecheck_statement has returned r; ok
\* is FALSE when the iteration returns Err from typecheck_block.
after_statement(r, i, len, s_span, loc) ==
  IF ~r.ok THEN [ok |-> FALSE, errs |-> r.errs]
  ELSE IF i < len
  THEN IF r.typ = Typ(Consumed, Unit)
       THEN [ok |-> TRUE,
             loc |-> BlockLocals(r.ctx, loc.mutated_vars \cup r.mutated, loc.return_typ),
             errs |-> r.errs]
       ELSE [ok |-> FALSE,
             errs |-> r.errs \o <<Diag("statement should have unit type", s_span)>>]
  ELSE [ok |-> TRUE,
        loc |-> BlockLocals(r.ctx, loc.mutated_vars \cup r.mutated, <<r.typ>>),
        errs |-> r.errs]

\* One iteration of the loop of typecheck_block (lines 561-578); the span of
\* statement i of the block whose span is b_span is its child i.
block_iteration(s, i, len, b_span, fn_context, loc) ==
  after_statement(
    typecheck_statement(s, SpanChild(b_span, i), fn_context, loc.var_context),
    i, len, SpanChild(b_span, i), loc)

\* The value typecheck_block returns after its loop (lines 581-585).
block_result(stmts, loc) ==
  [stmts |-> stmts, mutated_vars |-> <<loc.mutated_vars>>, return_typ |-> loc.return_typ]

RECURSIVE block_loop(_, _, _, _, _, _)

\* The loop after iteration i has returned it.
block_next(stmts, i, b_span, fn_context, it, errs) ==
  IF ~it.ok THEN [ok |-> FALSE, errs |-> errs \o it.errs]
  ELSE block_loop(stmts, i + 1, b_span, fn_context, it.loc, errs \o it.errs)

\* The loop from statement i on, with the locals loc.
block_loop(stmts, i, b_span, fn_context, loc, errs) ==
  IF i > Len(stmts)
  THEN [ok |-> TRUE, val |-> block_result(stmts, loc), errs |-> errs]
  ELSE block_next(stmts, i, b_span, fn_context,
                  block_iteration(stmts[i], i, Len(stmts), b_span, fn_context, loc),
                  errs)

typecheck_block(b, b_span, fn_context, var_context) ==
  block_loop(b.stmts, 1, b_span, fn_context, BlockLocals(var_context, {}, <<>>), <<>>)

(***************************************************************************)
(* typecheck_item                                                          *)
(***************************************************************************)

\* The fold that seeds the variable context of a function body from its
\* parameters (lines 595-601).
RECURSIVE seed_context(_, _, _)
seed_context(args, i, var_context) ==
  IF i > Len(args) THEN var_context
  ELSE seed_context(args, i + 1, MapUpdate(var_context, args[i].x, args[i].t))

\* A variant of fn_decl_result that keeps the signature the table already
\* holds for the name.
fn_decl_result_first_wins(i, fn_context, b) ==
  IF ~b.ok THEN [ok |-> FALSE, errs |-> b.errs]
  ELSE [ok |-> TRUE,
        item |-> FnDecl(i.f, i.sig, b.val),
        fn_context |-> IF Static(i.f) \in DOMAIN fn_context
                       THEN fn_context
                       ELSE MapUpdate(fn_context, Static(i.f), i.sig),
        errs |-> b.errs]

\* A variant of fn_decl_result that registers a function of at least one
\* parameter as a method of the type of its last parameter, too.
fn_decl_result_as_method(i, fn_context, b) ==
  IF ~b.ok THEN [ok |-> FALSE, errs |-> b.errs]
  ELSE [ok |-> TRUE,
        item |-> FnDecl(i.f, i.sig, b.val),
        fn_context |->
          IF i.sig.args = <<>>
          THEN MapUpdate(fn_context, Static(i.f), i.sig)
          ELSE MapUpdate(MapUpdate(fn_context, Static(i.f), i.sig),
                         Method(i.sig.args[Len(i.sig.args)].t.t, i.f), i.sig),
        errs |-> b.errs]

\* A variant of fn_decl_result that refuses a function whose body has another
\* type than the declared return type.
fn_decl_result_checking_return(i, fn_context, b) ==
  IF ~b.ok THEN [ok |-> FALSE, errs |-> b.errs]
  ELSE IF b.val.return_typ # <<Typ(Consumed, i.sig.ret)>>
  THEN [ok |-> FALSE, errs |-> b.errs \o <<Diag("wrong return type", <<>>)>>]
  ELSE [ok |-> TRUE,
        item |-> FnDecl(i.f, i.sig, b.val),
        fn_context |-> MapUpdate(fn_context, Static(i.f), i.sig),
        errs |-> b.errs]

\* Lines 602-608: the declaration's result once typecheck_block has returned b.
fn_decl_result(i, fn_context, b) ==
  IF ~b.ok THEN [ok |-> FALSE, errs |-> b.errs]
  ELSE [ok |-> TRUE,
        item |-> FnDecl(i.f, i.sig, b.val),
        fn_context |-> MapUpdate(fn_context, Static(i.f), i.sig),
        errs |-> b.errs]

\* A variant of typecheck_item that checks the body of a function against the
\* signature table in which the function is already registered.
typecheck_item_registered_first(i, i_span, fn_context) ==
  IF i.i = "FnDecl"
  THEN fn_decl_result(i, fn_context,
                      typecheck_block(i.b, i_span,
                                      MapUpdate(fn_context, Static(i.f), i.sig),
                                      seed_context(i.sig.args, 1, EmptyMap)))
  ELSE [ok |-> TRUE, item |-> i, fn_context |-> fn_context, errs |-> <<>>]

\* The statements of the body are the children of the item's span.
typecheck_item(i, i_span, fn_context) ==
  IF i.i = "FnDecl"
  THEN fn_decl_result(i, fn_context,
                      typecheck_block(i.b, i_span, fn_context,
                                      seed_context(i.sig.args, 1, EmptyMap)))
  ELSE [ok |-> TRUE, item |-> i, fn_context |-> fn_context, errs |-> <<>>]

(***************************************************************************)
(* Bounds and input universes                                              *)
(***************************************************************************)

\* The longest program (in items) and the longest block (in statements).
MaxItems == 3
MaxStmts == 2

\* Types of variables and parameters: copy types (Bool, an integer, a tuple
\* of copy types) and non-copy types (a sequence, a named type, a tuple with
\* a sequence inside).
SeqU8 == TSeq(UInt8)
NamedT == TNamed(<<"T">>, <<>>)
CopyTuple == TTuple(<<UInt8, Bool>>)
SeqTuple == TTuple(<<SeqU8, Bool>>)
VarBaseTyps == {Bool, UInt8, CopyTuple, SeqU8, NamedT, SeqTuple}
VarTyps == {Typ(b, t) : b \in Borrowing, t \in VarBaseTyps}

\* Sequences over S of length lo..hi.
SeqsOf(S, lo, hi) == UNION {[1..m -> S] : m \in lo..hi}

\* --- types (the specification of equal_types and is_copy) ---

\* The longest tuple type.
MaxTupleLen == 2

\* Unit, Bool and the twelve integer types.
Atoms == {Atom(k) : k \in {"Unit", "Bool"} \cup IntKinds}

\* The component types of tuples and sequences: copy and non-copy ones, and a
\* tuple of each sort, so that a sequence occurs two tuples deep.
Comps == {UInt8, Bool, SeqU8, CopyTuple, SeqTuple}

\* Named types: paths that differ in a segment, in length and in the argument.
NamedTyps ==
  {NamedT, TNamed(<<"U">>, <<>>), TNamed(<<"m", "T">>, <<>>),
   TNamed(<<"T">>, <<UInt8>>), TNamed(<<"T">>, <<Bool>>)}

BaseTyps ==
  Atoms
  \cup {TSeq(t) : t \in Comps \cup {NamedT}}
  \cup NamedTyps
  \cup {TTuple(ts) : ts \in SeqsOf(Comps, 0, MaxTupleLen)}

Typs == {Typ(b, t) : b \in Borrowing, t \in BaseTyps}

\* --- function bodies (the block specification) ---

\* The signature table a body is checked against: the free functions f and
\* g; no function h.
BodyFnContext ==
  (Static("f") :> FuncSig(<<Param("a", Typ(Consumed, SeqU8)),
                            Param("b", Typ(Consumed, UInt8))>>, Int32))
  @@ (Static("g") :> FuncSig(<<Param("a", Typ(Borrowed, SeqU8))>>, SeqU8))

\* The same table with method signatures: len on sequences (the receiver is
\* taken Consumed) and on u8, push on sequences (the receiver is taken
\* Borrowed, after the pushed u8).  The parameter for the receiver is the last.
MethodFnContext ==
  BodyFnContext
  @@ (Method(SeqU8, "len") :> FuncSig(<<Param("self", Typ(Consumed, SeqU8))>>, Usize))
  @@ (Method(UInt8, "len") :> FuncSig(<<Param("self", Typ(Consumed, UInt8))>>, Usize))
  @@ (Method(SeqU8, "push") :> FuncSig(<<Param("b", Typ(Consumed, UInt8)),
                                         Param("self", Typ(Borrowed, SeqU8))>>, Unit))

\* The parameter lists that seed the variable context of the body.
BodyParams ==
  {<<>>}
  \cup {<<Param("x", t)>> : t \in VarTyps}
  \cup {<<Param("x", t), Param("y", u)>> :
          t \in VarTyps, u \in {Typ(Consumed, UInt8), Typ(Consumed, SeqU8)}}

X == EVar("x")
Y == EVar("y")
LitBool == ELit("Bool")
LitU8 == ELit("UInt8")

BodyExprs ==
  {X, Y, LitBool, LitU8, ENamed(Path(<<"m", "x">>, <<>>))}
  \cup {ETuple(<<>>), ETuple(<<X>>), ETuple(<<LitBool>>), ETuple(<<X, LitBool, X>>)}
  \cup {ETuple(<<a, b>>) : a \in {X, Y, LitU8}, b \in {X, Y, LitBool}}
  \cup {EBinary(a, b) : a \in {X, Y, LitBool}, b \in {X, Y, LitBool}}
  \cup {EUnary(X), EUnary(LitBool)}
  \cup {EBinary(EArrayIndex(X, LitU8), EArrayIndex(X, LitU8)),
        EBinary(EArrayIndex(X, LitU8), X)}
  \cup {EArrayIndex(a, b) : a \in {X, Y},
                              b \in {X, Y, LitBool, LitU8, ELit("Usize"), ELit("Int128")}}
  \cup {ECall("f", <<>>), ECall("f", <<X>>), ECall("f", <<LitBool>>),
        ECall("f", <<X, LitU8, X>>), ECall("f", <<X, LitU8, Y>>),
        ECall("f", <<X, Y, X>>)}
  \cup {ECall("f", <<a, b>>) : a \in {X, Y, LitBool}, b \in {X, Y, LitU8, LitBool}}
  \cup {ECall("g", <<>>), ECall("g", <<X>>), ECall("g", <<Y>>), ECall("g", <<LitBool>>),
        ECall("g", <<X, X>>), ECall("g", <<X, Y>>)}
  \cup {ECall("h", <<X>>), EFuncCall(Path(<<"m", "f">>, <<>>), <<X>>)}
  \cup {EMethodCall(X, "len", <<>>), EMethodCall(LitBool, "len", <<>>),
        EMethodCall(X, "push", <<Y>>)}

BodyStmts ==
  {LetBinding(PWildCard, <<>>, e) : e \in BodyExprs}
  \cup {LetBinding(PIdentPat(v), <<>>, e) :
          v \in {"x", "y"},
          e \in {X, Y, LitBool, LitU8, ECall("f", <<X, Y>>), ECall("f", <<Y, LitU8>>),
                 ECall("g", <<X>>), ETuple(<<X, Y>>)}}
  \cup {LetBinding(pt, <<>>, e) :
          pt \in {PTuple(<<PIdentPat("x"), PIdentPat("y")>>),
                  PTuple(<<PIdentPat("x"), PIdentPat("x")>>),
                  PTuple(<<PIdentPat("y"), PIdentPat("y")>>),
                  PTuple(<<PIdentPat("x")>>),
                  PTuple(<<PWildCard, PIdentPat("y"), PIdentPat("x")>>),
                  PTuple(<<PTuple(<<PWildCard>>), PIdentPat("y")>>),
                  PTuple(<<PTuple(<<PWildCard>>), PTuple(<<PIdentPat("y")>>)>>)},
          e \in {X, ETuple(<<LitU8, LitBool>>), ETuple(<<X, LitBool>>)}}
  \cup {LetBinding(PIdentPat("y"), <<t>>, e) :
          t \in {Typ(Consumed, Bool), Typ(Borrowed, SeqU8), Typ(Consumed, Int32)},
          e \in {X, LitBool, ECall("f", <<X, Y>>)}}

\* --- programs (the program specification) ---

ProgSigs ==
  {FuncSig(<<Param("x", Typ(Consumed, Bool))>>, Bool),
   FuncSig(<<Param("x", Typ(Consumed, SeqU8))>>, Int32)}

ProgBodies ==
  {<<>>,
   <<LetBinding(PIdentPat("y"), <<>>, ECall("f", <<X>>))>>,
   <<LetBinding(PIdentPat("y"), <<>>, ECall("g", <<X>>))>>}

\* Bodies that fail, for a sequence parameter x, elsewhere than at a call of a
\* free function: at the second use of x, at a method, in a pattern, in a
\* sub-pattern, in an element of a tuple literal and at a declared type.
FailingBodies ==
  {<<LetBinding(PWildCard, <<>>, X), LetBinding(PWildCard, <<>>, X)>>,
   <<LetBinding(PWildCard, <<>>, EMethodCall(X, "f", <<>>))>>,
   <<LetBinding(PTuple(<<PIdentPat("y")>>), <<>>, LitU8)>>,
   <<LetBinding(PTuple(<<PTuple(<<PWildCard>>), PIdentPat("y")>>), <<>>,
                ETuple(<<LitU8, LitBool>>))>>,
   <<LetBinding(PWildCard, <<>>, ETuple(<<Y, LitBool>>))>>,
   <<LetBinding(PIdentPat("y"), <<Typ(Consumed, Bool)>>, X)>>}

\* Bodies that declare the type of the result of a call of f.
DeclaringBodies ==
  {<<LetBinding(PIdentPat("y"), <<Typ(Consumed, t)>>, ECall("f", <<X>>))>> :
     t \in {Bool, Int32}}

Items ==
  {FnDecl(f, sig, Block(b)) : f \in {"f", "g"}, sig \in ProgSigs, b \in ProgBodies}
  \cup {FnDecl("g", sig, Block(b)) : sig \in ProgSigs, b \in DeclaringBodies}
  \cup {FnDecl("g", FuncSig(<<Param("x", Typ(Consumed, SeqU8))>>, Int32), Block(b)) :
          b \in FailingBodies}
  \cup {Use}

Programs == SeqsOf(Items, 0, MaxItems)

(***************************************************************************)
(* State                                                                   *)
(***************************************************************************)

VARIABLES
  pc,            \* where the function being modelled stands
  fn_context,    \* the signature table (FnContext)
  reported,      \* the diagnostics emitted so far, in order
  p,             \* typecheck_program: the program
  v,             \* typecheck_program: the results of the items mapped so far
  result,        \* typecheck_program: <<>>, or <<r>> once it has returned r
  var_context,   \* typecheck_block: the local var_context
  mutated_vars,  \* typecheck_block: the local mutated_vars
  return_typ,    \* typecheck_block: the local return_typ (<<>> is None)
  n,             \* typecheck_block: the number of statements of the block
  i,             \* typecheck_block: the number of statements checked so far
  last,          \* typecheck_block: the statement checked last and what its
                 \* check returned
  t1,            \* equal_types, is_copy: the (first) argument
  t2,            \* equal_types: the second argument
  out            \* equal_types, is_copy: the call made and what it returned

vars == <<pc, fn_context, reported, p, v, result,
          var_context, mutated_vars, return_typ, n, i, last, t1, t2, out>>

progVars == <<p, v, result>>
blockVars == <<var_context, mutated_vars, return_typ, n, i, last>>
typeVars == <<t1, t2, out>>

NoCall == [call |-> "none"]

(***************************************************************************)
(* typecheck_program, one item at a time                                   *)
(***************************************************************************)

Init ==
  /\ pc = "map"
  /\ fn_context = EmptyMap
  /\ reported = <<>>
  /\ p \in Programs
  /\ v = <<>>
  /\ result = <<>>
  /\ var_context = EmptyMap
  /\ mutated_vars = {}
  /\ return_typ = <<>>
  /\ n = 0
  /\ i = 0
  /\ last = NoCall
  /\ t1 = Typ(Consumed, Unit)
  /\ t2 = Typ(Consumed, Unit)
  /\ out = NoCall

\* The closure mapped over the items (lines 619-623), applied to the next
\* item: fn_context is the variable the closure captures.
\* Lines 620-622: the closure once typecheck_item has returned r.
MapResult(r) ==
  /\ reported' = reported \o r.errs
  /\ IF r.ok
     THEN /\ fn_context' = r.fn_context
          /\ v' = Append(v, [ok |-> TRUE, val |-> r.item])
     ELSE /\ fn_context' = fn_context
          /\ v' = Append(v, [ok |-> FALSE])

MapItem ==
  /\ pc = "map"
  /\ Len(v) < Len(p)
  /\ MapResult(typecheck_item(p[Len(v) + 1], <<Len(v) + 1>>, fn_context))
  /\ UNCHANGED <<pc, p, result>>
  /\ UNCHANGED blockVars
  /\ UNCHANGED typeVars

\* check_vec of the collected results (lines 617 and 625).
CheckVec ==
  /\ pc = "map"
  /\ Len(v) = Len(p)
  /\ pc' = "done"
  /\ result' = <<check_vec(v)>>
  /\ UNCHANGED <<fn_context, reported, p, v>>
  /\ UNCHANGED blockVars
  /\ UNCHANGED typeVars

Next == MapItem \/ CheckVec

Spec == Init /\ [][Next]_vars

(***************************************************************************)
(* typecheck_block, one statement at a time                                *)
(***************************************************************************)

\* typecheck_item has seeded the variable context from the parameters and
\* calls typecheck_block on a block of n statements.
InitBlock ==
  /\ pc = "loop"
  /\ fn_context = BodyFnContext
  /\ reported = <<>>
  /\ p = <<>>
  /\ v = <<>>
  /\ result = <<>>
  /\ \E args \in BodyParams : var_context = seed_context(args, 1, EmptyMap)
  /\ mutated_vars = {}
  /\ return_typ = <<>>
  /\ n \in 0..MaxStmts
  /\ i = 0
  /\ last = NoCall
  /\ t1 = Typ(Consumed, Unit)
  /\ t2 = Typ(Consumed, Unit)
  /\ out = NoCall

\* The iteration has returned it; e is what the check of the statement's
\* right-hand expression returned.
StatementResult(s, e, it) ==
  /\ last' = [call |-> "statement", s |-> s, before |-> var_context,
              e |-> e, ok |-> it.ok, errs |-> it.errs]
  /\ reported' = reported \o it.errs
  /\ i' = i + 1
  /\ IF it.ok
     THEN /\ var_context' = it.loc.var_context
          /\ mutated_vars' = it.loc.mutated_vars
          /\ return_typ' = it.loc.return_typ
          /\ pc' = pc
     ELSE /\ pc' = "err"
          /\ UNCHANGED <<var_context, mutated_vars, return_typ>>

\* One iteration of the loop, on statement s: the block's span is <<>>.
Statement(s) ==
  /\ pc = "loop"
  /\ i < n
  /\ StatementResult(
       s,
       typecheck_expression(s.expr, <<i + 1, 1>>, fn_context, var_context),
       block_iteration(s, i + 1, n, <<>>, fn_context,
                       BlockLocals(var_context, mutated_vars, return_typ)))
  /\ UNCHANGED <<fn_context, n>>
  /\ UNCHANGED progVars
  /\ UNCHANGED typeVars

\* The loop is over: typecheck_block returns the annotated block.
Return ==
  /\ pc = "loop"
  /\ i = n
  /\ pc' = "done"
  /\ UNCHANGED <<fn_context, reported>>
  /\ UNCHANGED blockVars
  /\ UNCHANGED progVars
  /\ UNCHANGED typeVars

NextBlock == (\E s \in BodyStmts : Statement(s)) \/ Return

SpecBlock == InitBlock /\ [][NextBlock]_vars

\* typecheck_block as above, entered with a signature table that holds
\* method signatures.  typecheck_item registers functions under Static keys
\* only, so that typecheck_program never hands such a table to a body; this
\* specification runs the part of the MethodCall arm of typecheck_expression
\* that lies behind the lookup of the method.
InitMethod ==
  /\ pc = "loop"
  /\ fn_context = MethodFnContext
  /\ reported = <<>>
  /\ p = <<>>
  /\ v = <<>>
  /\ result = <<>>
  /\ \E args \in BodyParams : var_context = seed_context(args, 1, EmptyMap)
  /\ mutated_vars = {}
  /\ return_typ = <<>>
  /\ n \in 0..MaxStmts
  /\ i = 0
  /\ last = NoCall
  /\ t1 = Typ(Consumed, Unit)
  /\ t2 = Typ(Consumed, Unit)
  /\ out = NoCall

SpecMethod == InitMethod /\ [][NextBlock]_vars

(***************************************************************************)
(* equal_types and is_copy, one call                                       *)
(***************************************************************************)

InitTypes ==
  /\ pc = "call"
  /\ fn_context = EmptyMap
  /\ reported = <<>>
  /\ p = <<>>
  /\ v = <<>>
  /\ result = <<>>
  /\ var_context = EmptyMap
  /\ mutated_vars = {}
  /\ return_typ = <<>>
  /\ n = 0
  /\ i = 0
  /\ last = NoCall
  /\ t1 \in Typs
  /\ t2 \in Typs
  /\ out = NoCall

\* equal_types is called on the two types, in both orders.
EqualTypes ==
  /\ pc = "call"
  /\ pc' = "done"
  /\ out' = [call |-> "equal_types",
              r |-> equal_types(t1, t2),
              swapped |-> equal_types(t2, t1)]
  /\ UNCHANGED <<fn_context, reported, t1, t2>>
  /\ UNCHANGED blockVars
  /\ UNCHANGED progVars

\* is_copy is called on the base type of t1.
IsCopy ==
  /\ pc = "call"
  /\ pc' = "done"
  /\ out' = [call |-> "is_copy", r |-> is_copy(t1.t)]
  /\ UNCHANGED <<fn_context, reported, t1, t2>>
  /\ UNCHANGED blockVars
  /\ UNCHANGED progVars

NextTypes == EqualTypes \/ IsCopy

SpecTypes == InitTypes /\ [][NextTypes]_vars

(***************************************************************************)
(* Claims about typecheck_program (specification Spec)                     *)
(***************************************************************************)

\* e is a reference to an identifier; VarOf(e) is the identifier.
IsVar(e) == e.e = "Named" /\ e.path.arg = <<>> /\ Len(e.path.location) = 1
VarOf(e) == e.path.location[1]

\* The items of the program that are checked so far and failed.
FailedItems == {k \in DOMAIN v : ~v[k].ok}

\* Item k is the first item whose check failed.
FirstFailed(k) == k \in FailedItems /\ \A j \in 1..(k - 1) : j \notin FailedItems

\* The item a diagnostic was reported for: the first index of its span.
ItemOf(d) == d.at[1]

CallsFirst(k, h) ==
  /\ p[k].i = "FnDecl"
  /\ p[k].b.stmts # <<>>
  /\ p[k].b.stmts[1].expr.e = "FuncCall"
  /\ p[k].b.stmts[1].expr.f = Path(<<h>>, <<>>)

\* The span of the callee name of that call: statement 1 of item k, its
\* right-hand expression, the name.
CalleeSpan(k) == <<k, 1, 1, 0>>

\* The items before k that declared h and checked.
DeclaredBefore(k, h) ==
  {j \in 1..(k - 1) : p[j].i = "FnDecl" /\ p[j].f = h /\ v[j].ok}

Reported == {reported[d] : d \in DOMAIN reported}

FnNames == {"f", "g", "h"}

\* C17: the body of a function is checked against the signature table as it
\* is before the function itself is registered.  A call (here: in the first
\* statement of the body) of a function that no earlier, successfully checked
\* item declares -- the function itself, or one declared later -- makes the
\* item fail with the unknown-function diagnostic at the callee; a call of a
\* function that an earlier successfully checked item declares resolves.
C17_NoSelfOrForwardCall ==
  \A k \in DOMAIN v : \A h \in FnNames :
    CallsFirst(k, h) =>
      IF DeclaredBefore(k, h) = {}
      THEN /\ ~v[k].ok
           /\ Diag("unknown function", CalleeSpan(k)) \in Reported
      ELSE Diag("unknown function", CalleeSpan(k)) \notin Reported

\* C17, witness: the first item is a function f whose body calls f, the
\* second declares f again: the call in the first was reported as a call of
\* an unknown function.
C17_Witness ==
  /\ Len(p) = 2
  /\ Len(v) = 2
  /\ CallsFirst(1, "f")
  /\ p[1].f = "f"
  /\ p[2].i = "FnDecl"
  /\ p[2].f = "f"
  /\ ~v[1].ok
  /\ reported = <<Diag("unknown function", CalleeSpan(1))>>

\* The closure has just been applied to item Len(v').
ItemMapped == pc = "map" /\ Len(v') = Len(v) + 1

\* What one item does to the signature table: no key is removed; a Use item
\* and a failed function leave it as it is; a function that checked is stored
\* under its name, in the place of any signature stored there before, and no
\* other key changes.
TableStep ==
  ItemMapped =>
    LET it == p[Len(v')] IN
    /\ DOMAIN fn_context \subseteq DOMAIN fn_context'
    /\ it.i = "Use" => fn_context' = fn_context
    /\ (it.i = "FnDecl" /\ ~v'[Len(v')].ok) => fn_context' = fn_context
    /\ (it.i = "FnDecl" /\ v'[Len(v')].ok) =>
         /\ DOMAIN fn_context' = DOMAIN fn_context \cup {Static(it.f)}
         /\ fn_context'[Static(it.f)] = it.sig
         /\ \A key \in DOMAIN fn_context : key # Static(it.f) => fn_context'[key] = fn_context[key]

\* The latest item before k that declared h and checked.
LatestBefore(k, h) == CHOOSE j \in DeclaredBefore(k, h) : \A m \in DeclaredBefore(k, h) : m <= j

\* Item k is a function of one parameter x whose body is `let y = h(x);`.
PassesOn(k, h) ==
  /\ p[k].i = "FnDecl"
  /\ Len(p[k].sig.args) = 1
  /\ p[k].sig.args[1].x = "x"
  /\ p[k].b.stmts = <<LetBinding(PIdentPat("y"), <<>>, ECall(h, <<X>>))>>

\* A call in a later item resolves against the most recent declaration: an
\* item that passes its parameter to h checks exactly when the parameter has
\* the type the latest earlier declaration of h (of one parameter) gives its
\* own, and is otherwise refused at the argument.
ResolvesLatest ==
  \A k \in DOMAIN v : \A h \in FnNames :
    (PassesOn(k, h) /\ DeclaredBefore(k, h) # {}) =>
      LET sig == p[LatestBefore(k, h)].sig IN
      Len(sig.args) = 1 =>
        /\ v[k].ok <=> p[k].sig.args[1].t = sig.args[1].t
        /\ ~v[k].ok => \E d \in Reported : d.at = <<k, 1, 1, 1>>

\* C18: across the items of a program no Static key is removed from the
\* signature table; a function that checks replaces the signature stored
\* under its name, so that calls in later items resolve against the most
\* recent declaration; a Use item leaves the table unchanged.
C18_TableGrowsLatestWins == [][TableStep]_vars /\ []ResolvesLatest

\* C18, witness: f was declared twice, with a Bool and then with a sequence
\* parameter, and a third function passed its sequence to f and checked.
C18_Witness ==
  /\ Len(v) = 3
  /\ p[1] = FnDecl("f", FuncSig(<<Param("x", Typ(Consumed, Bool))>>, Bool), Block(<<>>))
  /\ p[2] = FnDecl("f", FuncSig(<<Param("x", Typ(Consumed, SeqU8))>>, Int32), Block(<<>>))
  /\ PassesOn(3, "f")
  /\ p[3].sig.args[1].t = Typ(Consumed, SeqU8)
  /\ v[3].ok
  /\ fn_context[Static("f")] = p[2].sig

\* --- declared return types ---

\* What typecheck_block returns for the body of item k, checked against the
\* present signature table and the context seeded from k's parameters.
BodyChecked(k) ==
  typecheck_block(p[k].b, <<k>>, fn_context, seed_context(p[k].sig.args, 1, EmptyMap))

\* One function declaration: it succeeds exactly when its body checks, and is
\* then registered with its signature as declared and returned with the
\* annotated body, whatever type the body has.
DeclarationStep ==
  (ItemMapped /\ p[Len(v')].i = "FnDecl") =>
    /\ v'[Len(v')].ok = BodyChecked(Len(v')).ok
    /\ v'[Len(v')].ok =>
         /\ fn_context'[Static(p[Len(v')].f)] = p[Len(v')].sig
         /\ v'[Len(v')].val =
              FnDecl(p[Len(v')].f, p[Len(v')].sig, BodyChecked(Len(v')).val)

\* Item k is a function of one parameter x whose body is `let y: t = h(x);`.
DeclaresResultOf(k, h, t) ==
  /\ p[k].i = "FnDecl"
  /\ Len(p[k].sig.args) = 1
  /\ p[k].sig.args[1].x = "x"
  /\ p[k].b.stmts = <<LetBinding(PIdentPat("y"), <<t>>, ECall(h, <<X>>))>>

\* A caller receives the declared return type: a let that declares the type
\* of the result of a call, the argument being right, checks exactly when the
\* declared type is (Consumed, the return type of the latest declaration).
CallersGetDeclared ==
  \A k \in DOMAIN v : \A h \in FnNames : \A t \in {Typ(Consumed, b) : b \in {Bool, Int32}} :
    (DeclaresResultOf(k, h, t) /\ DeclaredBefore(k, h) # {}) =>
      LET sig == p[LatestBefore(k, h)].sig IN
      (Len(sig.args) = 1 /\ p[k].sig.args[1].t = sig.args[1].t) =>
        (v[k].ok <=> t = Typ(Consumed, sig.ret))

\* No function that checked has a body of its declared return type: the body
\* is empty, without type, or ends in a let, of type (Consumed, Unit).
BodyTypIgnored ==
  \A k \in DOMAIN v :
    (p[k].i = "FnDecl" /\ v[k].ok) =>
      /\ v[k].val.b.return_typ # <<Typ(Consumed, p[k].sig.ret)>>
      /\ Static(p[k].f) \in DOMAIN fn_context

\* C23: typecheck_item does not compare the type of the body with the
\* declared return type.  A function declaration succeeds, and is registered
\* with its signature, exactly when its body checks, also when (as for every
\* function here) the type of the body is not the declared return type; and a
\* caller receives the declared return type.
C23_ReturnTypNotChecked ==
  [][DeclarationStep]_vars /\ []CallersGetDeclared /\ []BodyTypIgnored

\* C23, witness: f returns i32 by declaration and has an empty body; f is
\* declared again, to return i32, with a body that is a let, of unit type;
\* a third function declared the result of a call of f an i32 and checked.
C23_Witness ==
  /\ Len(v) = 3
  /\ p[1] = FnDecl("f", FuncSig(<<Param("x", Typ(Consumed, SeqU8))>>, Int32), Block(<<>>))
  /\ p[2] = FnDecl("f", FuncSig(<<Param("x", Typ(Consumed, SeqU8))>>, Int32),
                   Block(<<LetBinding(PIdentPat("y"), <<>>, ECall("f", <<X>>))>>))
  /\ DeclaresResultOf(3, "f", Typ(Consumed, Int32))
  /\ v[1].ok /\ v[2].ok /\ v[3].ok
  /\ v[1].val.b.return_typ = <<>>
  /\ v[2].val.b.return_typ = <<Typ(Consumed, Unit)>>

\* --- methods ---

\* Item k is a function whose body starts with a let of a method call on one
\* of the function's parameters.
CallsMethodFirst(k) ==
  /\ p[k].i = "FnDecl"
  /\ p[k].b.stmts # <<>>
  /\ p[k].b.stmts[1].expr.e = "MethodCall"
  /\ IsVar(p[k].b.stmts[1].expr.sel)
  /\ \E a \in DOMAIN p[k].sig.args : p[k].sig.args[a].x = VarOf(p[k].b.stmts[1].expr.sel)

ArityMsgs == {"function arity", "method arity", "pattern arity"}

\* C19: a failure is never silent and returns nothing else.  Every item whose
\* check failed (in its block, in a statement, in an expression or in a
\* pattern) has reported a diagnostic inside the item, other than an arity
\* mismatch, and its result carries no item; when typecheck_program has
\* returned failure, a diagnostic has been reported and the result carries no
\* program; and it returns failure exactly when an item failed.
C19_FailureIsReported ==
  /\ \A k \in DOMAIN v :
       ~v[k].ok =>
         /\ \E d \in Reported : ItemOf(d) = k /\ d.msg \notin ArityMsgs
         /\ DOMAIN v[k] = {"ok"}
  /\ pc = "done" =>
       /\ result[1].ok <=> FailedItems = {}
       /\ ~result[1].ok =>
            /\ reported # <<>>
            /\ DOMAIN result[1] = {"ok"}

\* C19, witness: typecheck_program has returned failure for a program whose
\* only failure is a tuple pattern bound against a type that is no tuple.
C19_Witness ==
  /\ pc = "done"
  /\ Len(p) = 2
  /\ p[1] = Use
  /\ p[2].i = "FnDecl"
  /\ p[2].b.stmts = <<LetBinding(PTuple(<<PIdentPat("y")>>), <<>>, LitU8)>>
  /\ result = <<[ok |-> FALSE]>>
  /\ reported = <<Diag("pattern expected a tuple", <<2, 1, 0>>)>>

(***************************************************************************)
(* Claims about typecheck_block and what it calls (specification           *)
(* SpecBlock).  last holds the statement checked last: last.before is the  *)
(* context it was checked against, last.e what the check of its right-hand *)
(* expression returned, last.ok and last.errs what the iteration returned. *)
(***************************************************************************)

Checked == last.call = "statement"

\* The span of the pattern and of the expression of the statement checked last.
LastPatSpan == <<i, 0>>
LastExprSpan == <<i, 1>>

\* The copy types and the non-copy types, as the specification words them: a
\* type is non-copy when it is a Sequence, a Named type, or a Tuple with a
\* non-copy component.
RECURSIVE HoldsNonCopy(_)
HoldsNonCopy(t) ==
  \/ t.k \in {"Seq", "Named"}
  \/ t.k = "Tuple" /\ \E c \in DOMAIN t.sub : HoldsNonCopy(t.sub[c])

\* x is bound in ctx as a Consumed variable of a non-copy type: a reference
\* to it moves it.
Moves(ctx, x) == x \in DOMAIN ctx /\ ctx[x].b = Consumed /\ HoldsNonCopy(ctx[x].t)

\* ctx without the names of S.
Without(ctx, S) == [x \in DOMAIN ctx \ S |-> ctx[x]]

\* C2, as stated: after a let statement checks successfully, every name bound
\* by its pattern maps, in the context returned by typecheck_statement, to the
\* Typ the pattern binding produced for it, also when the name was already
\* bound.
C2_LetShadows ==
  (Checked /\ last.ok) =>
    LET bound == typecheck_pattern(last.s.pat, LastPatSpan, last.e.typ).ctx
    IN \A x \in DOMAIN bound : var_context[x] = bound[x]

\* C3, as stated: when a tuple pattern binds the same identifier at two
\* positions a < b of the zipped range, typecheck_pattern returns a context in
\* which the identifier has the component type of the later position.
C3_LaterDuplicateWins ==
  (Checked /\ last.e.ok /\ last.s.pat.p = "Tuple" /\ last.e.typ.t.k = "Tuple") =>
    LET pats == last.s.pat.args
        typs == last.e.typ.t.sub
        zipped == 1..Min(Len(pats), Len(typs))
        r == typecheck_pattern(last.s.pat, LastPatSpan, last.e.typ)
    IN \A a \in zipped, b \in zipped :
         ( /\ a < b
           /\ pats[a].p = "IdentPat"
           /\ pats[b] = pats[a]
           /\ \A c \in zipped : c > b => pats[c] # pats[a] )
         => (r.ok /\ r.ctx[pats[a].x] = Typ(Consumed, typs[b]))

\* C4: for a variable x bound as (Consumed, T) with T non-copy, a reference to
\* x succeeds with x's Typ and returns the context without x, and a second
\* reference checked against that returned context fails with the
\* unknown-variable diagnostic.
C4_ConsumedNonCopyMovesOnce ==
  (Checked /\ IsVar(last.s.expr) /\ Moves(last.before, VarOf(last.s.expr))) =>
    LET x == VarOf(last.s.expr)
        second == typecheck_expression(last.s.expr, <<i + 1, 1>>, fn_context, last.e.ctx)
    IN /\ last.e.ok
       /\ last.e.typ = last.before[x]
       /\ last.e.ctx = Without(last.before, {x})
       /\ last.e.errs = <<>>
       /\ ~second.ok
       /\ second.errs = <<Diag("unknown variable", <<i + 1, 1>>)>>

\* C4, witness: a reference to a Consumed tuple with a sequence inside has
\* been checked, and the variable is gone from the context.
C4_Witness ==
  /\ Checked
  /\ last.s = LetBinding(PWildCard, <<>>, X)
  /\ "x" \in DOMAIN last.before
  /\ last.before["x"] = Typ(Consumed, SeqTuple)
  /\ last.ok
  /\ "x" \notin DOMAIN var_context

\* C5: for a variable x bound as (Consumed, T) with T a copy type, a reference
\* to x succeeds with type (Consumed, T) and leaves the context as it was, so
\* a second reference against the returned context succeeds with the same
\* type and x is still bound to the same Typ after it.
C5_ConsumedCopyStays ==
  (Checked /\ IsVar(last.s.expr) /\ VarOf(last.s.expr) \in DOMAIN last.before) =>
    LET x == VarOf(last.s.expr)
        t == last.before[x]
        second == typecheck_expression(last.s.expr, <<i + 1, 1>>, fn_context, last.e.ctx)
    IN (t.b = Consumed /\ ~HoldsNonCopy(t.t)) =>
         /\ last.e.ok
         /\ last.e.typ = t
         /\ last.e.ctx = last.before
         /\ second.ok
         /\ second.typ = t
         /\ x \in DOMAIN second.ctx
         /\ second.ctx[x] = t

\* C5, witness: the second statement of a block referred to a Consumed tuple
\* of copy types, and the variable is still bound to it.
C5_Witness ==
  /\ Checked
  /\ i = 2
  /\ last.s = LetBinding(PWildCard, <<>>, X)
  /\ "x" \in DOMAIN last.before
  /\ last.before["x"] = Typ(Consumed, CopyTuple)
  /\ last.ok
  /\ var_context["x"] = Typ(Consumed, CopyTuple)

\* C6: a name bound with Borrowed mode is never removed.  Whatever statement
\* is checked, a name that was Borrowed in the context before it is still
\* Borrowed, with the same type, in the context the right-hand expression
\* returns, and is still present in the context after the statement.
C6_BorrowedStays ==
  Checked =>
    \A x \in DOMAIN last.before :
      last.before[x].b = Borrowed =>
        /\ last.e.ok => (x \in DOMAIN last.e.ctx /\ last.e.ctx[x] = last.before[x])
        /\ x \in DOMAIN var_context

\* C6, witness: the second statement of a block passed a Borrowed sequence to
\* g and bound a name, and the sequence is still in the context.
C6_Witness ==
  /\ Checked
  /\ i = 2
  /\ last.s = LetBinding(PIdentPat("y"), <<>>, ECall("g", <<X>>))
  /\ last.ok
  /\ last.before["x"] = Typ(Borrowed, SeqU8)
  /\ "x" \in DOMAIN var_context
  /\ "y" \in DOMAIN var_context

\* --- sibling sub-expressions and calls ---

\* e is an identifier reference or a literal.
IsLeaf(e) == IsVar(e) \/ e.e = "Lit"

\* e is a call of a free function that the signature table knows.
IsKnownCall(e) ==
  /\ e.e = "FuncCall"
  /\ e.f.arg = <<>>
  /\ Len(e.f.location) = 1
  /\ Static(e.f.location[1]) \in DOMAIN fn_context

\* The signature a known call resolves to.
SigOf(e) == fn_context[Static(e.f.location[1])]

\* The sibling sub-expressions of a tuple literal, a binary operator or a
\* known call that are checked against each other's contexts: all of them,
\* and for a call the arguments that have a parameter.
Siblings(e) ==
  CASE e.e = "Tuple" -> e.args
    [] e.e = "Binary" -> <<e.e1, e.e2>>
    [] e.e = "FuncCall" -> SubSeq(e.args, 1, Min(Len(SigOf(e).args), Len(e.args)))

HasSiblings(e) == e.e \in {"Tuple", "Binary"} \/ IsKnownCall(e)

\* The span of sibling c of the expression checked last.
SiblingSpan(c) == SpanChild(LastExprSpan, c)

\* The variables that the siblings before position c move out of ctx.
MovedBefore(sib, c, ctx) ==
  {VarOf(sib[j]) : j \in {k \in 1..(c - 1) : IsVar(sib[k]) /\ Moves(ctx, VarOf(sib[k]))}}

\* Sibling c (a leaf) checks by itself: a literal, or a variable of ctx that no
\* sibling before it has moved.  LeafTyp is then its type.
LeafChecks(sib, c, ctx) ==
  \/ sib[c].e = "Lit"
  \/ /\ IsVar(sib[c])
     /\ VarOf(sib[c]) \in DOMAIN ctx
     /\ VarOf(sib[c]) \notin MovedBefore(sib, c, ctx)

LeafTyp(sib, c, ctx) ==
  IF sib[c].e = "Lit" THEN Typ(Consumed, Atom(sib[c].lit)) ELSE ctx[VarOf(sib[c])]

\* The diagnostics of es that are placed at span at.
DiagsAt(es, at) == {d \in DOMAIN es : es[d].at = at}

C8_CallHasDeclaredReturnTyp ==
  (Checked /\ IsKnownCall(last.s.expr) /\ last.e.ok) =>
    /\ last.e.typ = Typ(Consumed, SigOf(last.s.expr).ret)
    /\ (last.ok /\ last.s.pat.p = "IdentPat") =>
         var_context[last.s.pat.x] = Typ(Consumed, SigOf(last.s.expr).ret)

\* Argument c of a known call (a leaf) checks by itself and agrees with
\* parameter c in borrowing mode and in base type.
ArgPasses(sib, sig, c, ctx) ==
  /\ LeafChecks(sib, c, ctx)
  /\ LeafTyp(sib, c, ctx).b = sig.args[c].t.b
  /\ LeafTyp(sib, c, ctx).t = sig.args[c].t.t

\* The arity diagnostic of a known call: reported when the counts differ.
ArityDiag(e) ==
  IF Len(SigOf(e).args) # Len(e.args)
  THEN <<Diag("function arity", LastExprSpan)>> ELSE <<>>

\* C9: for the argument/parameter pairs of a free call, in order: at the first
\* pair that does not pass, if the argument's borrowing mode differs from the
\* parameter's the call fails with a borrow-mode diagnostic, whether or not
\* the base types match; otherwise, if the base types differ, it fails with a
\* type-mismatch diagnostic; that diagnostic is the last one reported: no
\* later argument is checked.
C9_FirstMismatchStopsCall ==
  (Checked /\ IsKnownCall(last.s.expr)
     /\ \A c \in DOMAIN Siblings(last.s.expr) : IsLeaf(Siblings(last.s.expr)[c])) =>
    LET e == last.s.expr
        sig == SigOf(e)
        sib == Siblings(e)
        ctx == last.before
    IN \A c \in DOMAIN sib :
         ( /\ \A j \in 1..(c - 1) : ArgPasses(sib, sig, j, ctx)
           /\ LeafChecks(sib, c, ctx) )
         => LET given == LeafTyp(sib, c, ctx)
                wanted == sig.args[c].t
            IN /\ given.b # wanted.b =>
                    /\ ~last.e.ok
                    /\ last.e.errs =
                         ArityDiag(e) \o
                         <<Diag(IF wanted.b = Borrowed THEN "expected a borrow"
                                ELSE "superfluous borrow", SiblingSpan(c))>>
               /\ (given.b = wanted.b /\ given.t # wanted.t) =>
                    /\ ~last.e.ok
                    /\ last.e.errs = ArityDiag(e) \o <<Diag("expected type", SiblingSpan(c))>>

\* C9, witness: f(x, y) was checked with x a Borrowed sequence (the base type
\* of f's first parameter, which is Consumed) and y unbound: the call failed
\* with the borrow diagnostic alone, y was never looked up.
C9_Witness ==
  /\ Checked
  /\ last.s.expr = ECall("f", <<X, Y>>)
  /\ DOMAIN last.before = {"x"}
  /\ last.before["x"] = Typ(Borrowed, SeqU8)
  /\ ~last.ok
  /\ last.errs = <<Diag("superfluous borrow", SiblingSpan(1))>>

\* C10: when the argument count of a free call differs from the parameter
\* count, the arity diagnostic is reported (first) and the check goes on over
\* the first min(#parameters, #arguments) pairs only: nothing is reported for
\* an argument beyond them, the call fails if and only if one of these pairs
\* does not pass, and when they all pass the call returns the signature's
\* return type and the entry context without the variables those arguments
\* moved (the arguments beyond the prefix consume nothing).
C10_ArityReportedThenZipped ==
  (Checked /\ IsKnownCall(last.s.expr)
     /\ Len(SigOf(last.s.expr).args) # Len(last.s.expr.args)
     /\ \A c \in DOMAIN Siblings(last.s.expr) : IsLeaf(Siblings(last.s.expr)[c])) =>
    LET e == last.s.expr
        sig == SigOf(e)
        sib == Siblings(e)
        ctx == last.before
    IN /\ last.e.errs # <<>>
       /\ Head(last.e.errs) = Diag("function arity", LastExprSpan)
       /\ \A c \in DOMAIN e.args :
            c > Len(sib) => DiagsAt(last.e.errs, SiblingSpan(c)) = {}
       /\ last.e.ok <=> \A c \in DOMAIN sib : ArgPasses(sib, sig, c, ctx)
       /\ last.e.ok =>
            /\ last.e.typ = Typ(Consumed, sig.ret)
            /\ last.e.errs = <<Diag("function arity", LastExprSpan)>>
            /\ last.e.ctx = Without(ctx, MovedBefore(sib, Len(sib) + 1, ctx))

\* C10, witness: f, which has two parameters, was called with three arguments,
\* the third a Consumed sequence: the call succeeded with the arity diagnostic
\* alone, and the third argument is still in the context.
C10_Witness ==
  /\ Checked
  /\ last.s.expr = ECall("f", <<X, LitU8, Y>>)
  /\ "y" \in DOMAIN last.before
  /\ last.before["y"] = Typ(Consumed, SeqU8)
  /\ last.e.ok
  /\ last.e.errs = <<Diag("function arity", LastExprSpan)>>
  /\ "y" \in DOMAIN last.e.ctx

\* --- tuple patterns ---

\* The statement checked last binds a tuple pattern against a tuple type: its
\* right-hand expression checked, to a tuple, and no type is declared.
BindsTuple ==
  /\ Checked
  /\ last.e.ok
  /\ last.s.typ = <<>>
  /\ last.s.pat.p = "Tuple"
  /\ last.e.typ.t.k = "Tuple"

\* The positions of a tuple pattern that are zipped with a component type.
Zipped(pat, typ) == 1..Min(Len(pat.args), Len(typ.t.sub))

\* The positions among S at which pat binds the identifier x.
BindersOf(pat, S, x) == {c \in S : pat.args[c].p = "IdentPat" /\ pat.args[c].x = x}

\* C11: binding a tuple pattern of arity m against a tuple type of arity n,
\* m # n, reports the arity diagnostic at the pattern and still succeeds, and
\* so does the let statement: each of the first min(m, n) sub-patterns is
\* bound against the component type at its position, with Consumed mode, and
\* the sub-patterns beyond them bind nothing.  (Stated for sub-patterns that
\* are identifiers or wildcards, and read off the context for the names that
\* one position binds and that the context did not hold before.)
C11_PatternArityReportedNotFatal ==
  (BindsTuple
     /\ Len(last.s.pat.args) # Len(last.e.typ.t.sub)
     /\ \A c \in Zipped(last.s.pat, last.e.typ) :
          last.s.pat.args[c].p \in {"IdentPat", "WildCard"}) =>
    LET pat == last.s.pat
        zip == Zipped(pat, last.e.typ)
    IN /\ last.ok
       /\ last.errs = last.e.errs \o <<Diag("pattern arity", LastPatSpan)>>
       /\ DOMAIN var_context \subseteq
            DOMAIN last.e.ctx \cup {pat.args[c].x : c \in {d \in zip : pat.args[d].p = "IdentPat"}}
       /\ \A c \in DOMAIN pat.args :
            (pat.args[c].p = "IdentPat" /\ pat.args[c].x \notin DOMAIN last.e.ctx) =>
              IF c \in zip
              THEN BindersOf(pat, zip, pat.args[c].x) = {c} =>
                     /\ pat.args[c].x \in DOMAIN var_context
                     /\ var_context[pat.args[c].x] = Typ(Consumed, last.e.typ.t.sub[c])
              ELSE BindersOf(pat, zip, pat.args[c].x) = {} =>
                     pat.args[c].x \notin DOMAIN var_context

\* C11, witness: `let (x,) = (1u8, true)` was checked in an empty context: it
\* succeeded with the arity diagnostic and bound x to (Consumed, UInt8).
C11_Witness ==
  /\ Checked
  /\ last.s = LetBinding(PTuple(<<PIdentPat("x")>>), <<>>, ETuple(<<LitU8, LitBool>>))
  /\ last.before = EmptyMap
  /\ last.ok
  /\ last.errs = <<Diag("pattern arity", LastPatSpan)>>
  /\ var_context = MapUnit("x", Typ(Consumed, UInt8))

\* --- index expressions ---

\* C12: for `a[i]` whose two sub-expressions check (i against the context a
\* left): the index expression succeeds if and only if the base type of a is
\* a sequence, the mode of i is Consumed and the base type of i is one of the
\* integer types, and its type is then (Consumed, the element type); the mode
\* of a plays no part; a failure reports one diagnostic: at a when a is not a
\* sequence, at i when i is Borrowed or not an integer.
C12_IndexTyping ==
  (Checked /\ last.s.expr.e = "ArrayIndex"
     /\ IsLeaf(last.s.expr.e1) /\ IsLeaf(last.s.expr.e2)
     /\ LeafChecks(<<last.s.expr.e1, last.s.expr.e2>>, 1, last.before)
     /\ LeafChecks(<<last.s.expr.e1, last.s.expr.e2>>, 2, last.before)) =>
    LET sib == <<last.s.expr.e1, last.s.expr.e2>>
        a == LeafTyp(sib, 1, last.before)
        ix == LeafTyp(sib, 2, last.before)
    IN /\ last.e.ok <=> (a.t.k = "Seq" /\ ix.b = Consumed /\ ix.t.k \in IntKinds)
       /\ last.e.ok => last.e.typ = Typ(Consumed, a.t.sub[1])
       /\ a.t.k # "Seq" => last.e.errs = <<Diag("not a sequence", SiblingSpan(1))>>
       /\ (a.t.k = "Seq" /\ ix.b = Borrowed) =>
            last.e.errs = <<Diag("borrowed index", SiblingSpan(2))>>
       /\ (a.t.k = "Seq" /\ ix.b = Consumed /\ ix.t.k \notin IntKinds) =>
            last.e.errs = <<Diag("expected an integer index", SiblingSpan(2))>>

\* C12, witness: a Borrowed sequence was indexed by a Consumed integer
\* variable, and the index expression has the element type, Consumed.
C12_Witness ==
  /\ Checked
  /\ last.s.expr = EArrayIndex(X, Y)
  /\ DOMAIN last.before = {"x", "y"}
  /\ last.before["x"] = Typ(Borrowed, SeqU8)
  /\ last.before["y"] = Typ(Consumed, UInt8)
  /\ last.e.ok
  /\ last.e.typ = Typ(Consumed, UInt8)

\* --- tuple literals ---

\* C13: a tuple literal with an element that checks to a Borrowed type fails
\* and reports the borrowed-in-tuple diagnostic at that element; a tuple
\* literal succeeds if and only if every element checks to a Consumed type,
\* and its type is then (Consumed, Tuple of the base types of the elements, in
\* order).
C13_NoBorrowedInTuple ==
  (Checked /\ last.s.expr.e = "Tuple"
     /\ \A c \in DOMAIN last.s.expr.args : IsLeaf(last.s.expr.args[c])) =>
    LET sib == last.s.expr.args
        ctx == last.before
    IN /\ \A c \in DOMAIN sib :
            (LeafChecks(sib, c, ctx) /\ LeafTyp(sib, c, ctx).b = Borrowed) =>
              /\ ~last.e.ok
              /\ \E d \in DOMAIN last.e.errs :
                   last.e.errs[d] = Diag("borrowed in tuple", SiblingSpan(c))
       /\ last.e.ok <=>
            \A c \in DOMAIN sib :
              LeafChecks(sib, c, ctx) /\ LeafTyp(sib, c, ctx).b = Consumed
       /\ last.e.ok =>
            last.e.typ = Typ(Consumed, TTuple([c \in DOMAIN sib |-> LeafTyp(sib, c, ctx).t]))

\* C13, witness: the tuple literal (x, y) was checked with x a Borrowed
\* sequence and y Consumed: it failed with the diagnostic at x.
C13_Witness ==
  /\ Checked
  /\ last.s.expr = ETuple(<<X, Y>>)
  /\ DOMAIN last.before = {"x", "y"}
  /\ last.before["x"] = Typ(Borrowed, SeqU8)
  /\ last.before["y"].b = Consumed
  /\ ~last.e.ok
  /\ last.e.errs = <<Diag("borrowed in tuple", SiblingSpan(1))>>

\* --- the block's annotations ---

\* C16: when a block of at least one statement has been checked, the result
\* type it is annotated with is the type of its final statement, which is
\* (Consumed, Unit); no statement before the final one was refused for a type
\* other than (Consumed, Unit); and the set of mutated variables it is
\* annotated with, the union of the statements' sets, is empty.  (Before the
\* final statement the result type is still unset.)
C16_BlockAnnotations ==
  /\ (pc = "loop" /\ i < n) => return_typ = <<>>
  /\ (pc \in {"loop", "done"} /\ n >= 1 /\ i = n) =>
       /\ return_typ = <<Typ(Consumed, Unit)>>
       /\ block_result(<<>>, BlockLocals(var_context, mutated_vars, return_typ)).return_typ
            = <<Typ(Consumed, Unit)>>
  /\ mutated_vars = {}
  /\ \A d \in DOMAIN reported : reported[d].msg # "statement should have unit type"

\* C16, witness: the block `{ let x = 1u8; let y = true; }` has been checked
\* and typecheck_block has returned.
C16_Witness ==
  /\ pc = "done"
  /\ n = 2
  /\ last.s = LetBinding(PIdentPat("y"), <<>>, LitBool)
  /\ last.before = MapUnit("x", Typ(Consumed, UInt8))
  /\ var_context = MapUpdate(MapUnit("x", Typ(Consumed, UInt8)), "y", Typ(Consumed, Bool))
  /\ return_typ = <<Typ(Consumed, Unit)>>
  /\ mutated_vars = {}

\* --- what a diagnostic stops ---

\* The spans of the tuple literals in the expression e, whose span is at.
RECURSIVE TuplesIn(_, _)
TuplesIn(e, at) ==
  CASE e.e = "Tuple" ->
         {at} \cup UNION {TuplesIn(e.args[c], SpanChild(at, c)) : c \in DOMAIN e.args}
    [] e.e \in {"Binary", "ArrayIndex"} ->
         TuplesIn(e.e1, SpanChild(at, 1)) \cup TuplesIn(e.e2, SpanChild(at, 2))
    [] e.e = "Unary" -> TuplesIn(e.e1, SpanChild(at, 1))
    [] e.e = "FuncCall" ->
         UNION {TuplesIn(e.args[c], SpanChild(at, c)) : c \in DOMAIN e.args}
    [] e.e = "MethodCall" ->
         TuplesIn(e.sel, SpanChild(at, Len(e.args) + 1))
         \cup UNION {TuplesIn(e.args[c], SpanChild(at, c)) : c \in DOMAIN e.args}
    [] OTHER -> {}

\* The spans of the tuple patterns in the pattern pat, whose span is at.
RECURSIVE TuplePatsIn(_, _)
TuplePatsIn(pat, at) ==
  IF pat.p = "Tuple"
  THEN {at} \cup UNION {TuplePatsIn(pat.args[c], SpanChild(at, c)) : c \in DOMAIN pat.args}
  ELSE {}

\* The span at lies inside the node whose span is q, in one of its children.
Within(at, q) == Len(at) > Len(q) /\ SubSeq(at, 1, Len(q)) = q

\* The diagnostics of the statement checked last that are no arity mismatch,
\* by their place in the order of emission.
Fatal == {d \in DOMAIN last.errs : last.errs[d].msg \notin ArityMsgs}

LastDiags == {last.errs[d] : d \in DOMAIN last.errs}

Indexes(e, a) == e.e = "ArrayIndex" /\ e.e1 = EVar(a)

\* ctx binds a to a sequence, in mode b.
BoundSeq(ctx, a, b) == a \in DOMAIN ctx /\ ctx[a].b = b /\ ctx[a].t.k = "Seq"

VarNames == {"x", "y"}

\* C24: checking `a[i]` for an identifier a bound as a Consumed sequence
\* moves a: the context the index expression returns, and the context after
\* a let that binds nothing, no longer hold a, and an index expression on a
\* that is checked without a in the context (in a later statement) fails
\* with the unknown-variable diagnostic at a; so does, within one expression,
\* a second `a[..]` or a plain reference to a after a first `a[..]`.  When a
\* is bound as Borrowed it stays as it is, and `a[..] op a[..]` checks.
C24_IndexMovesConsumedSequence ==
  Checked =>
    \A a \in VarNames :
      /\ (Indexes(last.s.expr, a) /\ last.e.ok /\ BoundSeq(last.before, a, Consumed)) =>
           /\ a \notin DOMAIN last.e.ctx
           /\ (last.ok /\ last.s.pat = PWildCard) => a \notin DOMAIN var_context
      /\ (Indexes(last.s.expr, a) /\ last.e.ok /\ BoundSeq(last.before, a, Borrowed)) =>
           /\ a \in DOMAIN last.e.ctx
           /\ last.e.ctx[a] = last.before[a]
           /\ (last.ok /\ last.s.pat = PWildCard) =>
                (a \in DOMAIN var_context /\ var_context[a] = last.before[a])
      /\ (Indexes(last.s.expr, a) /\ a \notin DOMAIN last.before) =>
           /\ ~last.e.ok
           /\ last.e.errs = <<Diag("unknown variable", SiblingSpan(1))>>
      /\ (last.s.expr.e = "Binary"
            /\ Indexes(last.s.expr.e1, a)
            /\ last.s.expr.e1.e2.e = "Lit"
            /\ last.s.expr.e1.e2.lit \in IntKinds
            /\ \/ last.s.expr.e2 = EVar(a)
               \/ last.s.expr.e2 = last.s.expr.e1) =>
           /\ BoundSeq(last.before, a, Consumed) =>
                /\ ~last.e.ok
                /\ last.e.errs =
                     <<Diag("unknown variable",
                            IF last.s.expr.e2 = EVar(a)
                            THEN SiblingSpan(2) ELSE SpanChild(SiblingSpan(2), 1))>>
           /\ (BoundSeq(last.before, a, Borrowed) /\ last.s.expr.e2 = last.s.expr.e1) =>
                /\ last.e.ok
                /\ last.e.ctx = last.before

\* C24, witness: `x[1u8] op x[1u8]` was checked with x a Consumed sequence:
\* the second x was reported unknown.
C24_Witness ==
  /\ Checked
  /\ last.s.expr = EBinary(EArrayIndex(X, LitU8), EArrayIndex(X, LitU8))
  /\ BoundSeq(last.before, "x", Consumed)
  /\ ~last.e.ok
  /\ last.e.errs = <<Diag("unknown variable", <<i, 1, 2, 1>>)>>

(***************************************************************************)
(* Claims about method calls (specification SpecMethod)                    *)
(***************************************************************************)

\* The statement checked last is a let of a method call on a variable that
\* the context binds, and the table holds the method for the variable's type.
MethodResolved ==
  /\ Checked
  /\ last.s.expr.e = "MethodCall"
  /\ IsVar(last.s.expr.sel)
  /\ VarOf(last.s.expr.sel) \in DOMAIN last.before
  /\ Method(last.before[VarOf(last.s.expr.sel)].t, last.s.expr.f) \in DOMAIN fn_context

\* The signature the method call resolves to, and the type of its receiver.
ReceiverTyp == last.before[VarOf(last.s.expr.sel)]
MethodSig == fn_context[Method(ReceiverTyp.t, last.s.expr.f)]

\* The context the first check of the receiver leaves.
AfterReceiver ==
  Without(last.before,
          IF Moves(last.before, VarOf(last.s.expr.sel))
          THEN {VarOf(last.s.expr.sel)} ELSE {})

\* The explicit arguments are leaves that match the parameters before the
\* last, and the last parameter is the receiver's: same count, same types.
MethodArgumentsMatch ==
  /\ Len(MethodSig.args) = Len(last.s.expr.args) + 1
  /\ MethodSig.args[Len(MethodSig.args)].t = ReceiverTyp
  /\ \A c \in DOMAIN last.s.expr.args :
       /\ IsLeaf(last.s.expr.args[c])
       /\ ArgPasses(last.s.expr.args, MethodSig, c, AfterReceiver)

C14_EqualTypesIsAnEquality ==
  out.call = "equal_types" =>
    /\ t1 = t2 => out.r
    /\ out.r = out.swapped
    /\ t1.b # t2.b => ~out.r
    /\ (t1.t.k \in IntKinds /\ t2.t.k \in IntKinds /\ t1.t.k # t2.t.k) => ~out.r
    /\ out.r => t1 = t2

\* C14, witness: equal_types has returned false for two integer types of the
\* same mode.
C14_Witness ==
  /\ out.call = "equal_types"
  /\ t1 = Typ(Borrowed, UInt8)
  /\ t2 = Typ(Borrowed, Atom("Int8"))
  /\ ~out.r

\* C15: is_copy is true for Unit, Bool and the integer types, false for every
\* sequence and every named type, and for a tuple true exactly when no
\* sequence or named type is among its components, at any depth of tuples
\* (so true for the empty tuple).
C15_IsCopyExactly ==
  out.call = "is_copy" =>
    /\ t1.t \in Atoms => out.r
    /\ t1.t.k \in {"Seq", "Named"} => ~out.r
    /\ t1.t = TTuple(<<>>) => out.r
    /\ out.r = ~HoldsNonCopy(t1.t)

\* C15, witness: is_copy has returned false for a tuple whose only sequence
\* is a component of a component.
C15_Witness ==
  /\ out.call = "is_copy"
  /\ t1.t = TTuple(<<Bool, SeqTuple>>)
  /\ ~out.r

====
